---- MODULE Spec2Model ----
(***************************************************************************)
(* DumpInfo.dump_info (src_plugins/ida/fakepdb/dumpinfo.py) as a state     *)
(* machine over a host analysis database.                                  *)
(*                                                                         *)
(* Addresses are counted in units of 2^31 bytes (2GB): TLC's integers are  *)
(* 32 bits wide and the source compares against 2**32, so an address a of  *)
(* the model stands for the byte address a * 2^31.  Python integers are    *)
(* unbounded, hence the subtractions below never wrap.                     *)
(*                                                                         *)
(* Host values that dump_info only passes through (file name, segment      *)
(* class and selector, return type, arguments and their locations,         *)
(* is_public, is_autonamed, export names) are not part of the model.       *)
(* A name is modelled as the pair of its origin and its address.           *)
(***************************************************************************)
EXTENDS Integers, Sequences, FiniteSets, TLC

VARIABLES
    db,         \* the host analysis database (only ever read)
    fault,      \* the section in which a host query raises, or "none"
    pc,         \* position inside dump_info
    base,       \* self._base
    general,    \* result of __process_general
    segments,   \* result of __process_segments
    exports,    \* result of __process_exports
    functions,  \* list built by __process_functions
    names,      \* result of __process_names
    extracted,  \* the sections whose value has been computed
    chunk,      \* local `chunk` of __process_functions
    func,       \* local `func` of __process_functions
    function,   \* local `function` (the dict being filled)
    it,         \* func_item_iterator_t position (index into the item order)
    labels,     \* local `labels` of __process_function_labels
    i,          \* loop index of __process_names
    file,       \* the file at filepath
    writes,     \* number of JSON documents written to filepath
    stderr      \* messages printed to sys.stderr

vars == <<db, fault, pc, base, general, segments, exports, functions, names,
          extracted, chunk, func, function, it, labels, i, file, writes, stderr>>

----------------------------------------------------------------------------
(* Bounds of the model *)

MaxAddr == 3        \* addresses are 0..MaxAddr
MaxList == 2        \* at most this many segment slots, and entry points

(* Program constants, in address units of 2^31 bytes *)

RvaLimit == 2       \* 2**32, the threshold the code compares with
PELimit == 1        \* 2GB, the limit the code's comment states

Addr == 0..MaxAddr

Sections == {"general", "segments", "exports", "functions", "names"}

\* Python's None for a func_t reference
None == [start_ea |-> -1, end_ea |-> -1, tail |-> FALSE]

\* getnseg(n) returning None
NoSeg == -1

Min(S) == CHOOSE x \in S : \A y \in S : x <= y

\* the elements of a set of integers in increasing order
SetToSeq(S) ==
    <<>> \o [k \in 1..Cardinality(S) |->
                CHOOSE x \in S : Cardinality({y \in S : y < x}) = k - 1]

----------------------------------------------------------------------------
(* The host's function tables, derived from the item kinds k of a layout   *)
(* and the owner rule o of its tail chunks                                 *)

ChunkStarts(k) == {a \in Addr : k[a] \in {"head", "tail"}}

ChunkEnd(k, s) ==
    LET later == {a \in Addr : a > s /\ k[a] # "body"}
    IN  IF later = {} THEN MaxAddr + 1 ELSE Min(later)

\* the func_t of the chunk that starts at s
Chunk(k, s) == [start_ea |-> s, end_ea |-> ChunkEnd(k, s),
                tail |-> k[s] = "tail"]

Heads(k) == {a \in Addr : k[a] = "head"}

\* the chunk (entry or tail) that contains ea
ChunkAt(k, ea) ==
    LET c == {s \in ChunkStarts(k) : s <= ea /\ ea < ChunkEnd(k, s)}
    IN  IF c = {} THEN None ELSE Chunk(k, CHOOSE s \in c : TRUE)

\* the function a tail chunk belongs to: the nearest function above it
\* (rule o) or below it
OwnerOf(k, o, t) ==
    LET below == {h \in Heads(k) : h < t}
        above == {h \in Heads(k) : h > t}
        Max(S) == CHOOSE x \in S : \A y \in S : x >= y
    IN  IF o
        THEN (IF above # {} THEN Min(above) ELSE Max(below))
        ELSE (IF below # {} THEN Max(below) ELSE Min(above))

\* the function whose entry or tail chunk contains ea
FuncAt(k, o, ea) ==
    LET c == ChunkAt(k, ea)
    IN  IF c = None THEN None
        ELSE IF c.tail THEN Chunk(k, OwnerOf(k, o, c.start_ea))
        ELSE c

\* the addresses of a chunk
ChunkItems(k, s) == {a \in Addr : s <= a /\ a < ChunkEnd(k, s)}

\* the items of function f in the order func_item_iterator_t enumerates
\* them: the entry chunk first, then its tail chunks by address
ItemsOf(k, o, f) ==
    LET tails == {t \in Addr : k[t] = "tail" /\ OwnerOf(k, o, t) = f}
        tailItems == UNION {ChunkItems(k, t) : t \in tails}
    IN  SetToSeq(ChunkItems(k, f)) \o SetToSeq(tailItems)

\* the tables of the layout with item kinds k and owner rule o
Tables(k, o) ==
    [kind |-> k, ownerAbove |-> o,
     fchunk |-> [a \in Addr |-> ChunkAt(k, a)],
     func |-> [a \in Addr |-> FuncAt(k, o, a)],
     items |-> [a \in Addr |-> IF k[a] = "head" THEN ItemsOf(k, o, a) ELSE <<>>]]

\* the database d with the layout of tables t
WithLayout(d, t) ==
    [d EXCEPT !.kind = t.kind, !.ownerAbove = t.ownerAbove,
              !.fchunk = t.fchunk, !.func = t.func, !.items = t.items]

----------------------------------------------------------------------------
(* The host API, as functions of the database d *)

\* ida_funcs.get_fchunk(ea): the chunk (entry or tail) that contains ea
get_fchunk(d, ea) == d.fchunk[ea]

\* get_fchunk in the place of get_next_fchunk: the chunk at ea itself
get_next_fchunk_Same(d, ea) == IF ea \in Addr THEN d.fchunk[ea] ELSE None

\* ida_funcs.get_next_fchunk(ea): the first chunk that starts after ea
get_next_fchunk(d, ea) ==
    LET c == {s \in ChunkStarts(d.kind) : s > ea}
    IN  IF c = {} THEN None ELSE d.fchunk[Min(c)]

\* get_next_fchunk in the place of get_next_func: tail chunks come back too
get_next_func_AnyChunk(d, ea) ==
    LET c == {s \in ChunkStarts(d.kind) : s > ea}
    IN  IF c = {} THEN None ELSE d.fchunk[Min(c)]

\* ida_funcs.get_next_func(ea): the first function that starts after ea
get_next_func(d, ea) ==
    LET c == {s \in Heads(d.kind) : s > ea}
    IN  IF c = {} THEN None ELSE d.fchunk[Min(c)]

\* get_func that only knows the start addresses of functions
get_func_StartOnly(d, ea) == IF d.kind[ea] = "head" THEN d.fchunk[ea] ELSE None

\* ida_funcs.get_func(ea): the function whose entry or tail chunk contains ea
get_func(d, ea) == d.func[ea]

\* func_item_iterator_t over func: the items it enumerates, in order
FuncItems(d, f) == d.items[f]

\* ida_name name list: d.nlist holds its addresses, sorted by address
get_nlist_size(d) == Len(d.nlist)
get_nlist_ea(d, idx) == d.nlist[idx + 1]
get_nlist_name(d, idx) == <<"usr", d.nlist[idx + 1]>>

\* the addresses that have a name
Named(d) == {d.nlist[k] : k \in DOMAIN d.nlist}

\* ida_name.get_visible_name(ea, GN_LOCAL); <<>> is the empty string
get_visible_name(d, ea) == IF ea \in Named(d) THEN <<"usr", ea>> ELSE <<>>

\* ida_funcs.get_func_name(ea)
get_func_name(d, ea) == IF ea \in Named(d) THEN <<"usr", ea>> ELSE <<"sub", ea>>

\* ida_ida.inf_is_32bit_exactly()
inf_is_32bit_exactly(d) == d.bits = 32

\* ida_bytes.is_func(flags) / is_data(flags) of the flags at ea
is_func(d, ea) == ea \in Addr /\ d.kind[ea] = "head"
is_data(d, ea) == ea \in Addr /\ d.kind[ea] = "data"

----------------------------------------------------------------------------
(* The private helpers of DumpInfo that are pure functions *)

\* Python's None as a JSON value
PyNone == "None"

\* Rva without the subtraction of the image base
Rva_NoBase(ea, b) == ea

\* the difference `ea - self._base`
Rva(ea, b) == ea - b

\* the test behind both 'RVA out of range' messages
OutOfRange(rva) == rva >= RvaLimit

describe_callingconvention(cc) ==
    CASE cc = 0   -> "invalid"
      [] cc = 16  -> "unknown"
      [] cc = 32  -> "voidarg"
      [] cc = 48  -> "cdecl"
      [] cc = 64  -> "cdecl_ellipsis"
      [] cc = 80  -> "stdcall"
      [] cc = 96  -> "pascal"
      [] cc = 112 -> "fastcall"
      [] cc = 128 -> "thiscall"
      [] cc = 144 -> "manual"
      [] cc = 160 -> "spoiled"
      [] cc = 176 -> "reserved"
      [] cc = 192 -> "reserved"
      [] cc = 208 -> "special_ellipsis"
      [] cc = 224 -> "special_pstack"
      [] cc = 240 -> "special"
      [] OTHER    -> PyNone

\* process_general that leaves the initial bitness of 16 on a 16-bit database
process_general_Keep16(d) ==
    LET arch == IF d.procname = "metapc"
                THEN (IF inf_is_32bit_exactly(d) THEN "x86" ELSE "x64")
                ELSE IF d.procname = "ARM" THEN "arm"
                ELSE d.procname
        bitness == IF inf_is_32bit_exactly(d) THEN 32
                   ELSE IF d.bits = 64 THEN 64 ELSE 16
    IN  [architecture |-> arch, bitness |-> bitness]

process_general(d) ==
    LET arch == IF d.procname = "metapc"
                THEN (IF inf_is_32bit_exactly(d) THEN "x86" ELSE "x64")
                ELSE IF d.procname = "ARM" THEN "arm"
                ELSE d.procname
        bitness == IF inf_is_32bit_exactly(d) THEN 32 ELSE 64
    IN  [architecture |-> arch, bitness |-> bitness]

\* the first n iterations of the loop of __process_segments
RECURSIVE SegmentLoop(_, _, _)
SegmentLoop(d, b, n) ==
    IF n = 0 THEN <<>>
    ELSE LET seg == d.segs[n]
         IN  SegmentLoop(d, b, n - 1) \o
             (IF seg # NoSeg
              THEN <<[name |-> <<"seg", n>>, start_rva |-> Rva(seg, b)]>>
              ELSE <<>>)

process_segments(d, b) == SegmentLoop(d, b, Len(d.segs))

\* the first n iterations of the loop of __process_exports; the entry point
\* of index i has ordinal i + 1
RECURSIVE ExportLoop(_, _, _)
ExportLoop(d, b, n) ==
    IF n = 0 THEN <<>>
    ELSE LET ea == d.entries[n]
             type == IF is_func(d, ea) THEN "function"
                     ELSE IF is_data(d, ea) THEN "data"
                     ELSE "unknown"
         IN  ExportLoop(d, b, n - 1) \o
             <<[ordinal |-> n, rva |-> Rva(ea, b), type |-> type]>>

process_exports(d, b) == ExportLoop(d, b, Len(d.entries))

\* the dict handed to json.dump
Document == [general |-> general, segments |-> segments, exports |-> exports,
             functions |-> functions, names |-> names]

NoDoc == [empty |-> TRUE]

----------------------------------------------------------------------------
(* The databases the model is run on.  Every layout of function chunks is  *)
(* combined with every name list, with every image base and owner rule,    *)
(* and with every address range; the processor, the calling-convention     *)
(* code, the segments and the entry points vary over a fixed layout.       *)

\* what lies at an address: nothing, the first item of a function entry
\* chunk, the first item of a tail chunk, or a further code item of the
\* chunk before it
Kinds == {"none", "head", "tail", "body"}

\* a body item continues a chunk, and a tail chunk belongs to a function
ValidKind(k) ==
    /\ \A a \in Addr : k[a] = "body" => a > 0 /\ k[a - 1] # "none"
    /\ (\E a \in Addr : k[a] = "tail") => (\E a \in Addr : k[a] = "head")

Layouts == {k \in [Addr -> Kinds] : ValidKind(k)}

\* the fixed layout: two functions of one item each and a data item
DefaultKind == [a \in Addr |-> CASE a = 0 -> "head"
                                 [] a = 1 -> "data"
                                 [] a = 2 -> "head"
                                 [] OTHER -> "none"]

RawDB ==
    [imagebase |-> 0, procname |-> "metapc", bits |-> 32,
     min_ea |-> 0, max_ea |-> MaxAddr + 1,
     kind |-> DefaultKind, ownerAbove |-> FALSE, itOk |-> TRUE,
     fchunk |-> <<>>, func |-> <<>>, items |-> <<>>,
     nlist |-> <<>>, segs |-> <<>>, entries |-> <<>>,
     cc |-> [a \in Addr |-> 48]]

DefaultDB == WithLayout(RawDB, Tables(DefaultKind, FALSE))

SeqsUpTo(S, n) == UNION {[1..m -> S] : m \in 0..n}

\* the layouts with the tail chunks owned by the nearest function below
\* them, and with either owner rule
LayoutsBelow == {Tables(k, FALSE) : k \in Layouts}
LayoutsEither == {Tables(k, o) : k \in Layouts, o \in BOOLEAN}

\* every layout with every name list
NameDBs ==
    {WithLayout([DefaultDB EXCEPT !.nlist = SetToSeq(n)], t) :
        t \in LayoutsBelow, n \in SUBSET Addr}

\* every layout with every image base and either owner rule for tail chunks
BaseDBs ==
    {WithLayout([DefaultDB EXCEPT !.imagebase = b, !.nlist = SetToSeq(n)], t) :
        t \in LayoutsEither, b \in 0..1, n \in {{}, Addr}}

\* every layout with every address range and either outcome of it.set()
RangeDBs ==
    {WithLayout([DefaultDB EXCEPT !.min_ea = lo, !.max_ea = hi, !.itOk = ok,
                                  !.nlist = SetToSeq(Addr)], t) :
        t \in LayoutsBelow, lo \in 0..1, hi \in (MaxAddr - 1)..(MaxAddr + 1),
        ok \in BOOLEAN}

\* every processor name with every bitness of the database
HostDBs ==
    {[DefaultDB EXCEPT !.procname = p, !.bits = w] :
        p \in {"metapc", "ARM", "mipsb"}, w \in {16, 32, 64}}

\* every value of the byte func_type_data.cc for the first function
CcDBs ==
    {[DefaultDB EXCEPT !.cc = [a \in Addr |-> IF a = 0 THEN c ELSE e]] :
        c \in 0..255, e \in {0, 48}}

\* every list of segment slots, and every list of entry points, with every
\* image base
SegDBs ==
    {[DefaultDB EXCEPT !.segs = sg, !.imagebase = b] :
        sg \in SeqsUpTo(Addr \cup {NoSeg}, MaxList), b \in 0..1}

EntryDBs ==
    {[DefaultDB EXCEPT !.entries = en, !.imagebase = b] :
        en \in SeqsUpTo(Addr, MaxList), b \in 0..1}

Databases == NameDBs \cup BaseDBs \cup RangeDBs \cup HostDBs \cup CcDBs \cup SegDBs
             \cup EntryDBs

----------------------------------------------------------------------------
(* dump_info *)

\* the state when dump_info is entered: a host fault and an existing output
\* file are tried on the databases of HostDBs only
Start ==
    /\ \/ /\ fault = "none"
          /\ file = [state |-> "absent", doc |-> NoDoc]
       \/ /\ db \in HostDBs
          /\ fault \in Sections \cup {"none"}
          /\ file \in {[state |-> s, doc |-> NoDoc] : s \in {"absent", "old"}}
    /\ pc = "start"
    /\ base = -1
    /\ general = [architecture |-> "", bitness |-> 0]
    /\ segments = <<>>
    /\ exports = <<>>
    /\ functions = <<>>
    /\ names = <<>>
    /\ extracted = {}
    /\ chunk = None
    /\ func = None
    /\ function = [start_rva |-> 0, name |-> <<>>, calling_convention |-> PyNone,
                   labels |-> <<>>]
    /\ it = 0
    /\ labels = <<>>
    /\ i = 0
    /\ writes = 0
    /\ stderr = <<>>

Init ==
    /\ db \in Databases
    /\ Start

\* dump_info with the file opened before the extraction
ReadBase_OpenFirst ==
    /\ pc = "start"
    /\ base' = db.imagebase
    /\ file' = [state |-> "truncated", doc |-> NoDoc]
    /\ pc' = "general"
    /\ UNCHANGED <<i, db, fault, general, segments, exports, functions, names,
                   extracted, chunk, func, function, it, labels, writes, stderr>>

\* self._base = ida_nalt.get_imagebase()
ReadBase ==
    /\ pc = "start"
    /\ base' = db.imagebase
    /\ pc' = "general"
    /\ UNCHANGED <<i, db, fault, general, segments, exports, functions, names,
                   extracted, chunk, func, function, it, labels, file, writes,
                   stderr>>

\* the section of dump_info that control is in
SectionAt ==
    CASE pc \in {"general", "segments", "exports"} -> pc
      [] pc \in {"functions", "skip", "func_loop", "labels", "append"} -> "functions"
      [] pc \in {"names", "names_loop"} -> "names"
      [] OTHER -> "none"

\* a host query of the section raises: the exception leaves dump_info
Raise ==
    /\ fault # "none"
    /\ SectionAt = fault
    /\ pc' = "raised"
    /\ UNCHANGED <<i, db, fault, base, general, segments, exports, functions,
                   names, extracted, chunk, func, function, it, labels, file,
                   writes, stderr>>

ProcessGeneral ==
    /\ pc = "general"
    /\ fault # "general"
    /\ general' = process_general(db)
    /\ extracted' = extracted \cup {"general"}
    /\ pc' = "segments"
    /\ UNCHANGED <<i, db, fault, base, segments, exports, functions, names, chunk,
                   func, function, it, labels, file, writes, stderr>>

ProcessSegments ==
    /\ pc = "segments"
    /\ fault # "segments"
    /\ segments' = process_segments(db, base)
    /\ extracted' = extracted \cup {"segments"}
    /\ pc' = "exports"
    /\ UNCHANGED <<i, db, fault, base, general, exports, functions, names, chunk,
                   func, function, it, labels, file, writes, stderr>>

ProcessExports ==
    /\ pc = "exports"
    /\ fault # "exports"
    /\ exports' = process_exports(db, base)
    /\ extracted' = extracted \cup {"exports"}
    /\ pc' = "functions"
    /\ UNCHANGED <<i, db, fault, base, general, segments, functions, names, chunk,
                   func, function, it, labels, file, writes, stderr>>

\* __process_functions up to the tail-skipping loop
FindFirstChunk ==
    /\ pc = "functions"
    /\ functions' = <<>>
    /\ chunk' = LET c == get_fchunk(db, db.min_ea)
                IN  IF c = None THEN get_next_fchunk(db, db.min_ea) ELSE c
    /\ pc' = "skip"
    /\ UNCHANGED <<i, db, fault, base, general, segments, exports, names,
                   extracted, func, function, it, labels, file, writes, stderr>>

SkipCond == chunk # None /\ chunk.start_ea < db.max_ea /\ chunk.tail

\* one iteration of the tail-skipping loop
SkipTail ==
    /\ pc = "skip"
    /\ SkipCond
    /\ chunk' = get_next_fchunk(db, chunk.start_ea)
    /\ UNCHANGED <<i, db, fault, pc, base, general, segments, exports, functions,
                   names, extracted, func, function, it, labels, file, writes,
                   stderr>>

\* the tail-skipping loop ends: func = chunk
SkipDone ==
    /\ pc = "skip"
    /\ ~SkipCond
    /\ func' = chunk
    /\ pc' = "func_loop"
    /\ UNCHANGED <<i, db, fault, base, general, segments, exports, functions,
                   names, extracted, chunk, function, it, labels, file, writes,
                   stderr>>

FuncCond == func # None /\ func.start_ea < db.max_ea

\* the body of the function loop up to the label loop: the function dict,
\* the range message, __process_function_typeinfo and it.set(func)
FuncBegin ==
    /\ pc = "func_loop"
    /\ FuncCond
    /\ LET start_ea == func.start_ea
           rva == Rva(start_ea, base)
           func_name == get_func_name(db, start_ea)
       IN  /\ function' = [start_rva |-> rva, name |-> func_name,
                           calling_convention |->
                               describe_callingconvention(db.cc[start_ea]),
                           labels |-> <<>>]
           /\ stderr' = IF OutOfRange(rva)
                        THEN Append(stderr, [what |-> "function", name |-> func_name])
                        ELSE stderr
    /\ labels' = <<>>
    /\ IF db.itOk THEN it' = 1 /\ pc' = "labels"
                  ELSE it' = 0 /\ pc' = "append"
    /\ UNCHANGED <<i, db, fault, base, general, segments, exports, functions,
                   names, extracted, chunk, func, file, writes>>

\* the label loop reading the current item before it advances
LabelNext_ReadFirst ==
    /\ pc = "labels"
    /\ it < Len(FuncItems(db, func.start_ea))
    /\ it' = it + 1
    /\ LET ea == FuncItems(db, func.start_ea)[it]
           name == get_visible_name(db, ea)
       IN  labels' = IF name # <<>>
                     THEN Append(labels, [offset |-> ea - func.start_ea,
                                          name |-> name])
                     ELSE labels
    /\ UNCHANGED <<i, db, fault, pc, base, general, segments, exports, functions,
                   names, extracted, chunk, func, function, file, writes,
                   stderr>>

\* it.next_code() succeeds: one iteration of the label loop
LabelNext ==
    /\ pc = "labels"
    /\ it < Len(FuncItems(db, func.start_ea))
    /\ it' = it + 1
    /\ LET ea == FuncItems(db, func.start_ea)[it + 1]
           name == get_visible_name(db, ea)
       IN  labels' = IF name # <<>>
                     THEN Append(labels, [offset |-> ea - func.start_ea,
                                          name |-> name])
                     ELSE labels
    /\ UNCHANGED <<i, db, fault, pc, base, general, segments, exports, functions,
                   names, extracted, chunk, func, function, file, writes,
                   stderr>>

\* it.next_code() fails: the label loop ends
LabelsReturn ==
    /\ pc = "labels"
    /\ ~(it < Len(FuncItems(db, func.start_ea)))
    /\ pc' = "append"
    /\ UNCHANGED <<i, db, fault, base, general, segments, exports, functions,
                   names, extracted, chunk, func, function, it, labels, file,
                   writes, stderr>>

\* the function loop naming the function in the database as it goes
FuncAppend_Rename ==
    /\ pc = "append"
    /\ functions' = Append(functions, [function EXCEPT !.labels = labels])
    /\ func' = get_next_func(db, func.start_ea)
    /\ db' = [db EXCEPT !.nlist = SetToSeq(Named(db) \cup {func.start_ea})]
    /\ pc' = "func_loop"
    /\ UNCHANGED <<i, fault, base, general, segments, exports, names,
                   extracted, chunk, function, it, labels, file, writes, stderr>>

\* function['labels'] = ...; functions.append(function); get_next_func
FuncAppend ==
    /\ pc = "append"
    /\ functions' = Append(functions, [function EXCEPT !.labels = labels])
    /\ func' = get_next_func(db, func.start_ea)
    /\ pc' = "func_loop"
    /\ UNCHANGED <<i, db, fault, base, general, segments, exports, names,
                   extracted, chunk, function, it, labels, file, writes, stderr>>

\* the function loop ends: return functions
FuncLoopExit ==
    /\ pc = "func_loop"
    /\ ~FuncCond
    /\ fault # "functions"
    /\ extracted' = extracted \cup {"functions"}
    /\ pc' = "names"
    /\ UNCHANGED <<i, db, fault, base, general, segments, exports, functions,
                   names, chunk, func, function, it, labels, file, writes,
                   stderr>>

\* __process_names up to its loop
NamesBegin ==
    /\ pc = "names"
    /\ names' = <<>>
    /\ i' = 0
    /\ pc' = "names_loop"
    /\ UNCHANGED <<db, fault, base, general, segments, exports, functions,
                   extracted, chunk, func, function, it, labels, file, writes,
                   stderr>>

\* one iteration of the loop of __process_names
NameStep ==
    /\ pc = "names_loop"
    /\ i < get_nlist_size(db)
    /\ i' = i + 1
    /\ LET ea == get_nlist_ea(db, i)
           skip == get_func(db, ea) # None
           name == [rva |-> Rva(ea, base),
                    name |-> get_nlist_name(db, i),
                    is_func |-> get_func(db, ea) # None]
       IN  /\ names' = IF skip THEN names ELSE Append(names, name)
           /\ stderr' = IF ~skip /\ OutOfRange(name.rva)
                        THEN Append(stderr, [what |-> "name", name |-> name.name])
                        ELSE stderr
    /\ UNCHANGED <<db, fault, pc, base, general, segments, exports, functions,
                   extracted, chunk, func, function, it, labels, file, writes>>

\* the loop of __process_names ends: return names
NamesReturn ==
    /\ pc = "names_loop"
    /\ ~(i < get_nlist_size(db))
    /\ fault # "names"
    /\ extracted' = extracted \cup {"names"}
    /\ pc' = "open"
    /\ UNCHANGED <<db, fault, base, general, segments, exports, functions,
                   names, chunk, func, function, it, labels, i, file, writes,
                   stderr>>

\* open(filepath, "w") creates or truncates the file
OpenFile ==
    /\ pc = "open"
    /\ file' = [state |-> "truncated", doc |-> NoDoc]
    /\ pc' = "dump"
    /\ UNCHANGED <<i, db, fault, base, general, segments, exports, functions,
                   names, extracted, chunk, func, function, it, labels, writes,
                   stderr>>

\* json.dump(output, f, indent=4) and the end of the with block
JsonDump ==
    /\ pc = "dump"
    /\ file' = [state |-> "json", doc |-> Document]
    /\ writes' = writes + 1
    /\ pc' = "done"
    /\ UNCHANGED <<i, db, fault, base, general, segments, exports, functions,
                   names, extracted, chunk, func, function, it, labels, stderr>>

Next ==
    \/ ReadBase
    \/ Raise
    \/ ProcessGeneral
    \/ ProcessSegments
    \/ ProcessExports
    \/ FindFirstChunk
    \/ SkipTail
    \/ SkipDone
    \/ FuncBegin
    \/ LabelNext
    \/ LabelsReturn
    \/ FuncAppend
    \/ FuncLoopExit
    \/ NamesBegin
    \/ NameStep
    \/ NamesReturn
    \/ OpenFile
    \/ JsonDump

Spec == Init /\ [][Next]_vars

\* dump_info is sequential code: it keeps running until it returns or raises
\* The termination runs use the databases in which the loops vary: every
\* layout with either owner rule and start of range, every address named.
LiveDBs ==
    {WithLayout([DefaultDB EXCEPT !.min_ea = lo, !.nlist = SetToSeq(Addr)], t) :
        t \in LayoutsEither, lo \in 0..1}

LiveInit ==
    /\ db \in LiveDBs \cup HostDBs
    /\ Start

LiveSpec == LiveInit /\ [][Next]_vars /\ WF_vars(Next)

----------------------------------------------------------------------------
(* Properties *)

\* the address a name of the model was made from
AddrOf(name) == name[2]

\* ea lies in a chunk: a chunk start at or below ea with only body items
\* between them
InChunk(ea) ==
    \E s \in Addr : /\ s <= ea
                    /\ db.kind[s] \in {"head", "tail"}
                    /\ \A x \in (s + 1)..ea : db.kind[x] = "body"

CCNames == {"invalid", "unknown", "voidarg", "cdecl", "cdecl_ellipsis",
            "stdcall", "pascal", "fastcall", "thiscall", "manual", "spoiled",
            "reserved", "special_ellipsis", "special_pstack", "special"}

\* C1: a call that completes has written exactly one JSON document with the
\* five keys general, segments, exports, functions, names; the file is opened
\* only after all five sections are extracted, and a call that raises in a
\* section leaves the file as it was.
Thm_C1 ==
    /\ [](/\ writes <= 1
          /\ pc = "done" => /\ writes = 1
                            /\ file.state = "json"
                            /\ DOMAIN file.doc = Sections
          /\ file.state \in {"truncated", "json"} => extracted = Sections
          /\ pc = "raised" => writes = 0 /\ extracted # Sections)
    /\ [][extracted' # Sections => file' = file]_vars

Wit_C1 == pc = "done" /\ writes = 1 /\ Len(functions) >= 1 /\ Len(segments) >= 1

\* C2: no step of dump_info changes the host database.
Thm_C2 == [][db' = db]_vars

Wit_C2 ==
    /\ pc = "done"
    /\ Len(functions) >= 2
    /\ \E k \in DOMAIN functions : Len(functions[k].labels) >= 1
    /\ Len(names) >= 1

\* the RVAs of the four lists are the addresses minus the image base
RvaExact ==
    /\ \A k \in DOMAIN segments :
          \E n \in DOMAIN db.segs :
             /\ db.segs[n] # NoSeg
             /\ segments[k].name = <<"seg", n>>
             /\ segments[k].start_rva = db.segs[n] - db.imagebase
    /\ \A k \in DOMAIN exports :
          exports[k].rva = db.entries[exports[k].ordinal] - db.imagebase
    /\ \A k \in DOMAIN functions :
          functions[k].start_rva = AddrOf(functions[k].name) - db.imagebase
    /\ \A k \in DOMAIN names :
          names[k].rva = AddrOf(names[k].name) - db.imagebase

EmittedRvas ==
    {segments[k].start_rva : k \in DOMAIN segments}
    \cup {exports[k].rva : k \in DOMAIN exports}
    \cup {functions[k].start_rva : k \in DOMAIN functions}
    \cup {names[k].rva : k \in DOMAIN names}

\* C3 as claimed: every emitted RVA is the address minus the image base read
\* at the start, and is a non-negative offset.
Orig_C3 == RvaExact /\ \A r \in EmittedRvas : r >= 0

\* C3 as amended: every emitted RVA is the address minus the image base read
\* at the start (self._base is that image base from then on); it is negative
\* for an item the host reports below the image base.
Thm_C3 ==
    /\ pc # "start" => base = db.imagebase
    /\ RvaExact
    /\ \A k \in DOMAIN functions :
          functions[k].start_rva >= 0 <=> AddrOf(functions[k].name) >= db.imagebase
    /\ \A k \in DOMAIN names :
          names[k].rva >= 0 <=> AddrOf(names[k].name) >= db.imagebase

Wit_C3 ==
    /\ pc = "done"
    /\ db.imagebase = 1
    /\ \E k \in DOMAIN functions : functions[k].start_rva < 0
    /\ \E k \in DOMAIN functions : functions[k].start_rva > 0
    /\ \E k \in DOMAIN names : names[k].rva > 0

\* C4 as claimed: the calling convention of every function in the output is
\* one of the convention names, whatever code func_type_data.cc holds.
Orig_C4 ==
    \A k \in DOMAIN functions : functions[k].calling_convention \in CCNames

\* C5: every entry of functions is a function head below max_ea, the entries
\* are in strictly increasing address order (so none is repeated), and once
\* __process_functions has returned no head in [min_ea, max_ea) is missing.
Thm_C5 ==
    /\ \A k \in DOMAIN functions :
          /\ db.kind[AddrOf(functions[k].name)] = "head"
          /\ AddrOf(functions[k].name) < db.max_ea
    /\ \A k \in DOMAIN functions :
          k < Len(functions) =>
             AddrOf(functions[k].name) < AddrOf(functions[k + 1].name)
    /\ "functions" \in extracted =>
          \A a \in Addr :
             (db.kind[a] = "head" /\ db.min_ea <= a /\ a < db.max_ea) =>
                \E k \in DOMAIN functions : AddrOf(functions[k].name) = a

Wit_C5 ==
    /\ "functions" \in extracted
    /\ db.kind[db.min_ea] = "tail"
    /\ Len(functions) >= 2
    /\ \E a \in Addr : db.kind[a] = "tail" /\ a > AddrOf(functions[1].name)
                       /\ a < AddrOf(functions[2].name)

\* C6: with host iterators that only move forward, a call in which no host
\* query raises ends with the file written.
Thm_C6 == (fault = "none") ~> (pc = "done" /\ file.state = "json")

Wit_C6 ==
    /\ pc = "done"
    /\ db.kind[db.min_ea] = "tail"
    /\ \E k \in DOMAIN functions : Len(functions[k].labels) >= 2

\* a message of the given kind for the given name is on stderr
Reported(what, name) ==
    \E m \in DOMAIN stderr : stderr[m] = [what |-> what, name |-> name]

\* C7 as claimed: once the call is done, a function or name is reported on
\* stderr exactly when its RVA is 2GB or more, and it is in the output anyway.
Orig_C7 ==
    pc = "done" =>
       /\ \A k \in DOMAIN functions :
             functions[k].start_rva >= PELimit
                <=> Reported("function", functions[k].name)
       /\ \A k \in DOMAIN names :
             names[k].rva >= PELimit <=> Reported("name", names[k].name)

\* C8: bitness is 32 exactly for a 32-bit database and 64 otherwise, never
\* 16; architecture is x86/x64 for metapc, arm for ARM, else the host name.
Thm_C8 ==
    "general" \in extracted =>
       /\ general.bitness \in {32, 64}
       /\ general.bitness = 32 <=> db.bits = 32
       /\ db.procname = "metapc" =>
             general.architecture = (IF general.bitness = 32 THEN "x86" ELSE "x64")
       /\ db.procname = "ARM" => general.architecture = "arm"
       /\ db.procname \notin {"metapc", "ARM"} =>
             general.architecture = db.procname

Wit_C8 ==
    /\ "general" \in extracted
    /\ db.bits = 16
    /\ db.procname = "metapc"
    /\ general.bitness = 64

\* C9: no entry of names lies in a function (entry chunk, body or tail),
\* every entry has is_func false, the entries are the name-list entries
\* outside functions, in name-list order.
Thm_C9 ==
    /\ \A k \in DOMAIN names :
          /\ names[k].is_func = FALSE
          /\ ~InChunk(AddrOf(names[k].name))
          /\ \E j \in DOMAIN db.nlist : db.nlist[j] = AddrOf(names[k].name)
    /\ \A k \in DOMAIN names :
          k < Len(names) => AddrOf(names[k].name) < AddrOf(names[k + 1].name)
    /\ "names" \in extracted =>
          Len(names) = Len(db.nlist)
                       - Cardinality({j \in DOMAIN db.nlist : InChunk(db.nlist[j])})

Wit_C9 ==
    /\ "names" \in extracted
    /\ Len(names) >= 2
    /\ \E j \in DOMAIN db.nlist : db.kind[db.nlist[j]] \in {"body", "tail"}

\* the labels of a function: named items with their offset from its start
LabelsExact(f) ==
    \A l \in DOMAIN f.labels :
       /\ f.labels[l].name # <<>>
       /\ f.labels[l].offset = AddrOf(f.labels[l].name) - AddrOf(f.name)

\* C10 as claimed: every label has a non-empty name and an offset from the
\* function start that is strictly greater than 0.
Orig_C10 ==
    \A k \in DOMAIN functions :
       /\ LabelsExact(functions[k])
       /\ \A l \in DOMAIN functions[k].labels : functions[k].labels[l].offset > 0

\* C10 as amended: every label has a non-empty name and an offset equal to
\* the item's address minus the function start; the offset is never 0 (the
\* entry instruction is not emitted) and is negative exactly for an item
\* below the function start; if the iterator cannot be set, no label at all.
Thm_C10 ==
    \A k \in DOMAIN functions :
       /\ LabelsExact(functions[k])
       /\ \A l \in DOMAIN functions[k].labels :
             /\ functions[k].labels[l].offset # 0
             /\ functions[k].labels[l].offset < 0
                   <=> AddrOf(functions[k].labels[l].name) < AddrOf(functions[k].name)
       /\ ~db.itOk => functions[k].labels = <<>>

Wit_C10 ==
    /\ pc = "done"
    /\ \E k \in DOMAIN functions :
          /\ \E l \in DOMAIN functions[k].labels : functions[k].labels[l].offset < 0
          /\ \E l \in DOMAIN functions[k].labels : functions[k].labels[l].offset > 0

====
